---------------------------- MODULE Spec2Model ----------------------------
(***************************************************************************)
(* A model of the two scripts of dataDawg:                                 *)
(*   my_approvals.py    get_approval_logs / get_token_name / display_log   *)
(*   badgerdao_task.py  EventABI / parse_event / collect_events / main     *)
(* The chain node (w3.eth.get_logs, w3.eth.filter, contract calls) is an   *)
(* external collaborator: its answers are chosen nondeterministically.     *)
(***************************************************************************)
EXTENDS Integers, Sequences, FiniteSets, TLC

VARIABLES
    script,              \* which script's main() runs
    pc,                  \* position of the run
    outcome,             \* "running" | "returned" | "raised"
    error,               \* the exception that ended the run ("" when none)
    fetched,             \* what the log fetch did: "none" | "ok" | "failed"
    address,             \* my_approvals: the --address argument (a string)
    padded_address,      \* my_approvals: the filter topic built from it
    logs,                \* my_approvals: the logs w3.eth.get_logs returned
    pending,             \* my_approvals: addresses the comprehension has not resolved yet
    names,               \* my_approvals: the dict address -> (name, decimals)
    rpc,                 \* my_approvals: the contract calls issued, with their outcome
    printed,             \* my_approvals: what the run printed, in order
    raw_events,          \* badgerdao_task: event_filter.get_all_entries()
    events,              \* badgerdao_task: the parsed events (list of dicts)
    summary_table,       \* badgerdao_task: the pivot table
    block_range_summary, \* badgerdao_task: the grouped table
    abiA, abiB,          \* two EventABI objects
    sigA, sigB           \* their signature properties

vars == <<script, pc, outcome, error, fetched, address, padded_address, logs,
          pending, names, rpc, printed, raw_events, events, summary_table,
          block_range_summary, abiA, abiB, sigA, sigB>>

approvalVars == <<address, padded_address, logs, pending, names, rpc, printed>>
badgerVars == <<raw_events, events, summary_table, block_range_summary>>
abiVars == <<abiA, abiB, sigA, sigB>>

(***************************************************************************)
(* Bounds of the model.                                                    *)
(***************************************************************************)
MaxLogs == 2
MaxEvents == 2
MaxParams == 2

(***************************************************************************)
(* Program constants.                                                      *)
(***************************************************************************)
START_BLOCK == 13129988
END_BLOCK == 14084738
BucketWidth == 10000
ZfillWidth == 64
DefaultDecimals == 18
AddressHexLen == 40

WordBytes == ZfillWidth \div 2
AddressBytes == AddressHexLen \div 2

(***************************************************************************)
(* Strings are sequences of one-character strings, so that slicing,        *)
(* padding and joining are computed as Python computes them.               *)
(***************************************************************************)
HexChars == {"0", "1", "2", "3", "4", "5", "6", "7", "8", "9",
             "a", "b", "c", "d", "e", "f", "A", "B", "C", "D", "E", "F"}

HexVal(c) ==
    CASE c = "0" -> 0 [] c = "1" -> 1 [] c = "2" -> 2 [] c = "3" -> 3
      [] c = "4" -> 4 [] c = "5" -> 5 [] c = "6" -> 6 [] c = "7" -> 7
      [] c = "8" -> 8 [] c = "9" -> 9
      [] c \in {"a", "A"} -> 10 [] c \in {"b", "B"} -> 11
      [] c \in {"c", "C"} -> 12 [] c \in {"d", "D"} -> 13
      [] c \in {"e", "E"} -> 14 [] c \in {"f", "F"} -> 15

\* bytes.fromhex of an even-length string of hex digits
HexToBytes(s) ==
    [i \in 1..(Len(s) \div 2) |-> 16 * HexVal(s[2 * i - 1]) + HexVal(s[2 * i])]

Repeat(c, n) == [i \in 1..n |-> c]

HexDigits == <<"0", "1", "2", "3", "4", "5", "6", "7", "8", "9",
               "a", "b", "c", "d", "e", "f">>

\* HexBytes.hex(): '0x' and two lower-case digits per byte
BytesToHex(b) ==
    <<"0", "x">> \o [i \in 1..(2 * Len(b)) |->
                       IF i % 2 = 1 THEN HexDigits[(b[(i + 1) \div 2] \div 16) + 1]
                       ELSE HexDigits[(b[i \div 2] % 16) + 1]]

ZfillRight(s, width) ==
    IF Len(s) >= width THEN s ELSE s \o Repeat("0", width - Len(s))

\* str.zfill(width): zeros go after a leading sign
Zfill(s, width) ==
    IF Len(s) >= width THEN s
    ELSE IF Len(s) > 0 /\ s[1] \in {"+", "-"}
         THEN <<s[1]>> \o Repeat("0", width - Len(s)) \o Tail(s)
         ELSE Repeat("0", width - Len(s)) \o s

\* s[2:]
DropTwo(s) == SubSeq(s, 3, Len(s))

\* my_approvals.py line 28: '0x' + address[2:].zfill(64)
PaddedAddress(addr) == <<"0", "x">> \o Zfill(DropTwo(addr), ZfillWidth)

\* Big-endian value of a 32-byte ABI word, as eth_abi decodes uint/bool
\* inside get_event_data (badgerdao_task.py line 71).
RECURSIVE IntFromBytes(_)
IntFromBytes(data) ==
    IF Len(data) = 0 THEN 0
    ELSE 256 * IntFromBytes(SubSeq(data, 1, Len(data) - 1)) + data[Len(data)]

\* Web3.keccak(text=...).hex(): the digest is not computed, it is carried as a
\* deterministic function of the text
Keccak(text) == <<"keccak256", text>>

StrApproval == <<"A", "p", "p", "r", "o", "v", "a", "l">>
StrTransfer == <<"T", "r", "a", "n", "s", "f", "e", "r">>
StrAddress == <<"a", "d", "d", "r", "e", "s", "s">>
StrUint256 == <<"u", "i", "n", "t", "2", "5", "6">>
StrBool == <<"b", "o", "o", "l">>

\* my_approvals.py line 9: "Approval(address,address,uint256)"
event_signature ==
    StrApproval \o <<"(">> \o StrAddress \o <<",">> \o StrAddress \o <<",">>
        \o StrUint256 \o <<")">>
APPROVAL_EVENT_SIGNATURE == Keccak(event_signature)

(***************************************************************************)
(* Values the external collaborators may hand back.                        *)
(***************************************************************************)
\* a 32-byte big-endian word holding a small unsigned integer
UintWord(n) == [i \in 1..WordBytes |-> IF i = WordBytes THEN n ELSE 0]
\* a 20-byte address all of whose bytes are b, and its topic word
AddrOf(b) == [i \in 1..AddressBytes |-> b]
AddressWord(a) == Repeat(0, WordBytes - AddressBytes) \o a

OtherSignatureHash ==
    Keccak(StrTransfer \o <<"(">> \o StrAddress \o <<",">> \o StrAddress \o <<",">>
               \o StrUint256 \o <<")">>)
Owner == AddrOf(17)
Spender1 == AddrOf(34)
Spender2 == AddrOf(255)

GoodTopics(sp) == <<APPROVAL_EVENT_SIGNATURE, AddressWord(Owner), AddressWord(sp)>>
WrongSigTopics == <<OtherSignatureHash, AddressWord(Owner), AddressWord(Spender1)>>
\* the ERC-721 Approval event: same signature, token id indexed, no data
Erc721Topics == <<APPROVAL_EVENT_SIGNATURE, AddressWord(Owner), AddressWord(Spender1), UintWord(9)>>
ShortTopics == <<APPROVAL_EVENT_SIGNATURE, AddressWord(Owner)>>

ApprovalLog(a, t, d) == [address |-> a, topics |-> t, data |-> d]

ApprovalLogSample ==
    { ApprovalLog("0xTokenA", GoodTopics(Spender1), UintWord(5)),
      ApprovalLog("0xTokenB", GoodTopics(Spender1), UintWord(7)),
      ApprovalLog("0xTokenA", WrongSigTopics, UintWord(5)),
      ApprovalLog("0xTokenB", Erc721Topics, <<>>),
      ApprovalLog("0xTokenA", GoodTopics(Spender1), UintWord(0) \o UintWord(3)),
      ApprovalLog("0xTokenB", ShortTopics, UintWord(5)),
      ApprovalLog("0xTokenA", GoodTopics(Spender1), Repeat(255, 135)),
      ApprovalLog("0xTokenB", GoodTopics(Spender1), Repeat(255, 136)) }

RECURSIVE SeqsUpTo(_, _)
SeqsUpTo(S, n) ==
    IF n = 0 THEN {<<>>}
    ELSE LET shorter == SeqsUpTo(S, n - 1)
         IN  shorter \cup {Append(s, x) : s \in {t \in shorter : Len(t) = n - 1}, x \in S}

NameValues == {"Dai Stablecoin"}
DecimalValues == {6, 18}
CallOk(v) == [ok |-> TRUE, value |-> v]
CallFailed == [ok |-> FALSE, value |-> "CallError"]
NameResults == {CallOk(v) : v \in NameValues} \cup {CallFailed}
DecimalsResults == {CallOk(v) : v \in DecimalValues} \cup {CallFailed}

(***************************************************************************)
(* my_approvals.py                                                         *)
(***************************************************************************)
NameCall(nameRes) == [method |-> "name", res |-> nameRes]
DecimalsCall(decRes) == [method |-> "decimals", res |-> decRes]
Fetching(a) == [kind |-> "fetching_token_name", address |-> a]
ErrorFetching(a) == [kind |-> "error_fetching_token_name", address |-> a]

get_token_name_partial(a, nameRes, decRes) ==
    [raised   |-> FALSE,
     name     |-> IF nameRes.ok THEN nameRes.value ELSE "Unknown Token",
     decimals |-> IF decRes.ok THEN decRes.value ELSE DefaultDecimals,
     calls    |-> <<NameCall(nameRes), DecimalsCall(decRes)>>,
     lines    |-> IF nameRes.ok /\ decRes.ok THEN <<Fetching(a)>>
                  ELSE <<Fetching(a), ErrorFetching(a)>>]

get_token_name_lower(a, nameRes, decRes) ==
    IF nameRes.ok /\ decRes.ok
    THEN [raised |-> FALSE, name |-> nameRes.value, decimals |-> decRes.value,
          calls |-> <<NameCall(nameRes), DecimalsCall(decRes)>>,
          lines |-> <<Fetching(a)>>]
    ELSE [raised |-> FALSE, name |-> "unknown token", decimals |-> DefaultDecimals,
          calls |-> IF nameRes.ok THEN <<NameCall(nameRes), DecimalsCall(decRes)>>
                    ELSE <<NameCall(nameRes)>>,
          lines |-> <<Fetching(a), ErrorFetching(a)>>]

\* get_token_name, lines 62-71: line 62 prints, both calls sit in one try
\* block, and the handler of 'except Exception' prints (line 68) and sets both
\* values; nothing is raised out of it
get_token_name(a, nameRes, decRes) ==
    IF nameRes.ok /\ decRes.ok
    THEN [raised |-> FALSE, name |-> nameRes.value, decimals |-> decRes.value,
          calls |-> <<NameCall(nameRes), DecimalsCall(decRes)>>,
          lines |-> <<Fetching(a)>>]
    ELSE [raised |-> FALSE, name |-> "Unknown Token", decimals |-> DefaultDecimals,
          calls |-> IF nameRes.ok THEN <<NameCall(nameRes), DecimalsCall(decRes)>>
                    ELSE <<NameCall(nameRes)>>,
          lines |-> <<Fetching(a), ErrorFetching(a)>>]

(***************************************************************************)
(* The integer of line 82 can be far wider than a machine word: it is kept *)
(* as its big-endian base-256 digits without leading zeros.                *)
(***************************************************************************)
\* int.from_bytes(data, byteorder='big') as digits
StripZeros(b) ==
    LET nz == {i \in 1..Len(b) : b[i] # 0}
    IN  IF nz = {} THEN <<>>
        ELSE SubSeq(b, CHOOSE i \in nz : \A j \in nz : i <= j, Len(b))

\* digits * k + carry, for a small k
RECURSIVE MulSmall(_, _, _)
MulSmall(b, k, carry) ==
    IF Len(b) = 0 THEN (IF carry = 0 THEN <<>> ELSE <<carry>>)
    ELSE LET v == b[Len(b)] * k + carry
         IN  Append(MulSmall(SubSeq(b, 1, Len(b) - 1), k, v \div 256), v % 256)

\* digits * 10 ** d
RECURSIVE TimesPow10(_, _)
TimesPow10(b, d) == IF d = 0 THEN b ELSE TimesPow10(MulSmall(b, 10, 0), d - 1)

BigLess(x, y) ==
    \/ Len(x) < Len(y)
    \/ /\ Len(x) = Len(y)
       /\ \E i \in 1..Len(x) : x[i] < y[i] /\ \A j \in 1..(i - 1) : x[j] = y[j]

\* 2^1024 - 2^970, the least quotient that no longer rounds to a finite
\* float, is FloatLimitHead followed by FloatLimitZeros zero digits
FloatLimitHead == Repeat(255, 6) \o <<252>>
FloatLimitZeros == 121

\* (2^1024 - 2^970) * 10 ** decimals, for the decimals a run can meet
OverflowFrom ==
    [d \in DecimalValues \cup {DefaultDecimals} |->
        TimesPow10(FloatLimitHead, d) \o Repeat(0, FloatLimitZeros)]

\* int / 10 ** decimals raises OverflowError when the correctly rounded
\* quotient is not a finite float
TrueDivOverflows(digits, decimals) == ~BigLess(digits, OverflowFrom[decimals])

\* display_log, lines 81-83. The float int / 10 ** decimals is carried as the
\* pair (mantissa, scale), the exact quotient mantissa / 10^scale that the
\* float rounds; its rounding to 53 bits is not represented.
display_log(log, nm) ==
    IF log.address \notin DOMAIN nm
    THEN [raised |-> TRUE, line |-> [kind |-> "KeyError"]]
    ELSE IF TrueDivOverflows(StripZeros(log.data), nm[log.address][2])
    THEN [raised |-> TRUE, line |-> [kind |-> "OverflowError"]]
    ELSE [raised |-> FALSE,
          line |-> [kind |-> "approval",
                    log |-> log,
                    name |-> nm[log.address][1],
                    amount |-> [mantissa |-> StripZeros(log.data),
                                scale |-> nm[log.address][2]]]]

(***************************************************************************)
(* badgerdao_task.py                                                       *)
(***************************************************************************)
ABIParam(ix, n, t) == [indexed |-> ix, name |-> n, type |-> t]
EventABI(ins, n, anon) == [inputs |-> ins, name |-> n, type |-> "event", anonymous |-> anon]

\* ",".join(parts)
RECURSIVE Join(_, _)
Join(parts, sep) ==
    IF Len(parts) = 0 THEN <<>>
    ELSE IF Len(parts) = 1 THEN parts[1]
    ELSE parts[1] \o sep \o Join(Tail(parts), sep)

signature_with_names(abi) ==
    abi.name \o <<"(">>
        \o Join([i \in 1..Len(abi.inputs) |->
                    abi.inputs[i].type \o <<" ">> \o abi.inputs[i].name], <<",">>)
        \o <<")">>

\* EventABI.signature, lines 38-40
signature(abi) ==
    abi.name \o <<"(">>
        \o Join([i \in 1..Len(abi.inputs) |-> abi.inputs[i].type], <<",">>)
        \o <<")">>

\* EventABI.signature_hex, line 44
signature_hex(abi) == Keccak(signature(abi))

\* main, lines 95-104
ERC20_APPROVAL_ABI ==
    EventABI(<<ABIParam(TRUE, <<"o", "w", "n", "e", "r">>, StrAddress),
               ABIParam(TRUE, <<"s", "p", "e", "n", "d", "e", "r">>, StrAddress),
               ABIParam(FALSE, <<"v", "a", "l", "u", "e">>, StrUint256)>>,
             StrApproval, FALSE)

Indexed(abi) == SelectSeq(abi.inputs, LAMBDA q : q.indexed)
NonIndexed(abi) == SelectSeq(abi.inputs, LAMBDA q : ~q.indexed)

StaticTypes == {StrAddress, StrUint256, StrBool}

\* an address is the low-order 20 bytes of its word
DecodeAddress(word) == SubSeq(word, WordBytes - AddressBytes + 1, WordBytes)

DecodeWord(type, word) ==
    IF type = StrAddress THEN DecodeAddress(word)
    ELSE IF type = StrBool THEN IntFromBytes(word) # 0
    ELSE IntFromBytes(word)

\* web3's get_event_data as parse_event calls it (line 71): the signature
\* topic is compared for a non-anonymous event, the remaining topics must be
\* one per indexed input, and the data is read one word per non-indexed
\* input from its start (bytes after the last word are not looked at).
get_event_data(abi, event) ==
    LET ix == Indexed(abi)
        nix == NonIndexed(abi)
        log_topics == IF abi.anonymous THEN event.topics ELSE Tail(event.topics)
        fail(e) == [raised |-> TRUE, error |-> e, args |-> <<>>]
    IN  IF ~abi.anonymous /\ Len(event.topics) = 0 THEN fail("MismatchedABI")
        ELSE IF ~abi.anonymous /\ event.topics[1] # signature_hex(abi)
             THEN fail("MismatchedABI")
        ELSE IF Len(log_topics) # Len(ix) THEN fail("LogTopicError")
        ELSE IF \E i \in 1..Len(abi.inputs) : abi.inputs[i].type \notin StaticTypes
             THEN fail("UnsupportedType")
        ELSE IF Len(event.data) < WordBytes * Len(nix) THEN fail("InsufficientDataBytes")
        ELSE [raised |-> FALSE, error |-> "",
              args |-> [n \in {abi.inputs[i].name : i \in 1..Len(abi.inputs)} |->
                  IF \E i \in 1..Len(ix) : ix[i].name = n
                  THEN LET i == CHOOSE i \in 1..Len(ix) : ix[i].name = n
                       IN  DecodeWord(ix[i].type, log_topics[i])
                  ELSE LET i == CHOOSE i \in 1..Len(nix) : nix[i].name = n
                       IN  DecodeWord(nix[i].type,
                               SubSeq(event.data, WordBytes * (i - 1) + 1, WordBytes * i))]]

\* parse_event, lines 70-76: the dict literal puts 'transaction' and
\* 'block_number' first and the decoded arguments over them
StrTransaction == <<"t", "r", "a", "n", "s", "a", "c", "t", "i", "o", "n">>
StrBlockNumber == <<"b", "l", "o", "c", "k", "_", "n", "u", "m", "b", "e", "r">>
StrSpender == <<"s", "p", "e", "n", "d", "e", "r">>

parse_event(event, abi) ==
    LET d == get_event_data(abi, event)
    IN  IF d.raised THEN [raised |-> TRUE, error |-> d.error, value |-> <<>>]
        ELSE [raised |-> FALSE, error |-> "",
              value |-> d.args @@ (StrTransaction :> BytesToHex(event.transactionHash)
                                   @@ StrBlockNumber :> event.blockNumber)]

\* the list comprehension of collect_events, line 88: the first parse_event
\* that raises ends it
RECURSIVE ParseAll(_, _)
ParseAll(raw, abi) ==
    IF Len(raw) = 0 THEN [raised |-> FALSE, error |-> "", value |-> <<>>]
    ELSE LET h == parse_event(raw[1], abi)
         IN  IF h.raised THEN h
             ELSE LET t == ParseAll(Tail(raw), abi)
                  IN  IF t.raised THEN t
                      ELSE [raised |-> FALSE, error |-> "", value |-> <<h.value>> \o t.value]

\* range(start, stop, step) for a positive step
Range(start, stop, step) ==
    [i \in 1..(IF stop > start THEN (stop - start + step - 1) \div step ELSE 0) |->
        start + (i - 1) * step]

\* line 116: the bin edges
Edges == Range(START_BLOCK, END_BLOCK, BucketWidth)
NumBins == Len(Edges) - 1

\* pd.cut(x, bins) with its defaults right=True, include_lowest=False: the
\* bin i is (bins[i], bins[i+1]]; 0 stands for NaN (no bin)
pd_cut(x, bins) ==
    IF \E i \in 1..(Len(bins) - 1) : bins[i] < x /\ x <= bins[i + 1]
    THEN CHOOSE i \in 1..(Len(bins) - 1) : bins[i] < x /\ x <= bins[i + 1]
    ELSE 0

RECURSIVE SumOver(_, _)
SumOver(S, f) ==
    IF S = {} THEN 0
    ELSE LET x == CHOOSE x \in S : TRUE
         IN  f[x] + SumOver(S \ {x}, f)

\* line 113: pivot_table(index='block_number', columns='spender',
\* values='transaction', aggfunc='count'); a pair with no row is NaN (absent)
pivot_table(evts) ==
    LET idx == {evts[i][StrBlockNumber] : i \in 1..Len(evts)}
        cols == {evts[i][StrSpender] : i \in 1..Len(evts)}
        rows(b, sp) == {i \in 1..Len(evts) :
                           evts[i][StrBlockNumber] = b /\ evts[i][StrSpender] = sp}
    IN  [index |-> idx,
         columns |-> cols,
         count |-> [c \in {c \in idx \X cols : rows(c[1], c[2]) # {}} |->
                       Cardinality(rows(c[1], c[2]))]]

\* line 116: groupby(pd.cut(index, edges)).sum(): NaN cells add 0, rows whose
\* bin is NaN are left out, every bin is a row of the result
groupby_cut_sum(table) ==
    LET codes == [b \in table.index |-> pd_cut(b, Edges)]
        cell == [c \in table.index \X table.columns |->
                    IF c \in DOMAIN table.count THEN table.count[c] ELSE 0]
    IN  [codes |-> codes,
         sums |-> [c \in (1..NumBins) \X table.columns |->
                      SumOver({k \in table.index \X {c[2]} : codes[k[1]] = c[1]}, cell)]]

\* what the node may answer to the badgerdao_task filter
EventLog(t, d, blk, tx) ==
    [topics |-> t, data |-> d, blockNumber |-> blk, transactionHash |-> UintWord(tx)]

LastEdge == Edges[Len(Edges)]

EventLogSample ==
    { EventLog(GoodTopics(Spender1), UintWord(5), START_BLOCK, 1),
      EventLog(GoodTopics(Spender1), UintWord(5), START_BLOCK + 1, 2),
      EventLog(GoodTopics(Spender2), UintWord(6), START_BLOCK + 1, 3),
      EventLog(GoodTopics(Spender1), UintWord(7), START_BLOCK + BucketWidth, 4),
      EventLog(GoodTopics(Spender2), UintWord(7), START_BLOCK + BucketWidth + 1, 5),
      EventLog(GoodTopics(Spender1), UintWord(8), LastEdge + 1, 6),
      EventLog(GoodTopics(Spender2), UintWord(8), END_BLOCK - 1, 7),
      EventLog(GoodTopics(Spender1), UintWord(9), END_BLOCK, 8),
      EventLog(GoodTopics(Spender1), UintWord(9), START_BLOCK - 1, 9),
      EventLog(WrongSigTopics, UintWord(5), START_BLOCK + 1, 10),
      EventLog(ShortTopics, UintWord(5), START_BLOCK + 1, 11),
      EventLog(GoodTopics(Spender1), <<>>, START_BLOCK + 1, 12),
      EventLog(GoodTopics(Spender1), UintWord(0) \o UintWord(3), START_BLOCK + 1, 13) }

Null == <<>>

\* the --address arguments the runs are started with
MainAddresses ==
    { <<"0", "x">> \o Repeat("0", AddressHexLen),
      <<"0", "x">> \o Repeat("a", AddressHexLen - 1) \o <<"F">> }

Displayed == SelectSeq(printed, LAMBDA l : l.kind = "approval")

AddressesOfFirst(ls) == IF Len(ls) = 0 THEN {} ELSE {ls[1].address}

\* line 47: set([log['address'] for log in logs])
AddressesOf(ls) == {ls[i].address : i \in 1..Len(ls)}

\* main, lines 87-91: argparse; --address is required
ParseArgs ==
    /\ script = "my_approvals" /\ pc = "args"
    /\ \E a \in MainAddresses : address' = a
    /\ pc' = "connect"
    /\ UNCHANGED <<script, outcome, error, fetched, padded_address, logs, pending,
                   names, rpc, printed, badgerVars, abiVars>>

ParseArgsExit ==
    /\ script = "my_approvals" /\ pc = "args"
    /\ pc' = "done"
    /\ outcome' = "raised"
    /\ error' = "SystemExit"
    /\ UNCHANGED <<script, fetched, approvalVars, badgerVars, abiVars>>

\* main, lines 93-95: the node is not connected
ConnectFail ==
    /\ script = "my_approvals" /\ pc = "connect"
    /\ pc' = "done"
    /\ outcome' = "raised"
    /\ error' = "Exception"
    /\ UNCHANGED <<script, fetched, approvalVars, badgerVars, abiVars>>

\* main, lines 93-98: connected; line 97 asks is_connected() again
Connected ==
    /\ script = "my_approvals" /\ pc = "connect"
    /\ \E again \in BOOLEAN :
           printed' = printed \o <<[kind |-> "connected", value |-> again],
                                    [kind |-> "retrieving", address |-> address]>>
    /\ pc' = "start"
    /\ UNCHANGED <<script, outcome, error, fetched, address, padded_address, logs,
                   pending, names, rpc, badgerVars, abiVars>>

\* lines 28-30
BuildFilter ==
    /\ script = "my_approvals" /\ pc = "start"
    /\ padded_address' = PaddedAddress(address)
    /\ printed' = printed \o <<[kind |-> "querying", topic |-> PaddedAddress(address)],
                                [kind |-> "block_range", from |-> "earliest", to |-> "latest"]>>
    /\ pc' = "fetch"
    /\ UNCHANGED <<script, outcome, error, fetched, address, logs, pending, names,
                   rpc, badgerVars, abiVars>>

\* lines 32-38 and 43-47: get_logs answered
GetLogsOk ==
    /\ script = "my_approvals" /\ pc = "fetch"
    /\ \E ls \in SeqsUpTo(ApprovalLogSample, MaxLogs) :
        /\ logs' = ls
        /\ fetched' = "ok"
        /\ IF Len(ls) = 0
           THEN /\ printed' = printed \o <<[kind |-> "found", n |-> 0],
                                            [kind |-> "no_logs"]>>
                /\ pending' = pending
                /\ pc' = "done"
                /\ outcome' = "returned"
           ELSE /\ printed' = Append(printed, [kind |-> "found", n |-> Len(ls)])
                /\ pending' = AddressesOf(ls)
                /\ pc' = "resolve"
                /\ outcome' = outcome
    /\ UNCHANGED <<script, error, address, padded_address, names, rpc,
                   badgerVars, abiVars>>

\* lines 39-41: get_logs raised; the handler prints and returns
GetLogsFail ==
    /\ script = "my_approvals" /\ pc = "fetch"
    /\ fetched' = "failed"
    /\ printed' = Append(printed, [kind |-> "error_fetching_logs"])
    /\ pc' = "done"
    /\ outcome' = "returned"
    /\ UNCHANGED <<script, error, address, padded_address, logs, pending, names,
                   rpc, badgerVars, abiVars>>

\* line 48: one get_token_name call of the dict comprehension over the set
ResolveName ==
    /\ script = "my_approvals" /\ pc = "resolve"
    /\ \E a \in pending, nameRes \in NameResults, decRes \in DecimalsResults :
        LET r == get_token_name(a, nameRes, decRes)
        IN  /\ rpc' = rpc \o [i \in 1..Len(r.calls) |->
                                [address |-> a, method |-> r.calls[i].method,
                                 res |-> r.calls[i].res]]
            /\ printed' = printed \o r.lines
            /\ IF r.raised
               THEN /\ pc' = "done" /\ outcome' = "raised" /\ error' = "CallError"
                    /\ UNCHANGED <<names, pending>>
               ELSE /\ names' = names @@ (a :> <<r.name, r.decimals>>)
                    /\ pending' = pending \ {a}
                    /\ pc' = IF pending \ {a} = {} THEN "display" ELSE "resolve"
                    /\ UNCHANGED <<outcome, error>>
    /\ UNCHANGED <<script, fetched, address, padded_address, logs,
                   badgerVars, abiVars>>

\* lines 50-51: one iteration of the display loop
DisplayLog ==
    /\ script = "my_approvals" /\ pc = "display"
    /\ LET i == Len(Displayed) + 1
           r == display_log(logs[i], names)
       IN  IF r.raised
           THEN /\ printed' = printed
                /\ pc' = "done"
                /\ outcome' = "raised"
                /\ error' = r.line.kind
           ELSE /\ printed' = Append(printed, r.line)
                /\ pc' = IF i = Len(logs) THEN "done" ELSE "display"
                /\ outcome' = IF i = Len(logs) THEN "returned" ELSE outcome
                /\ error' = error
    /\ UNCHANGED <<script, fetched, address, padded_address, logs, pending, names,
                   rpc, badgerVars, abiVars>>

\* collect_events, lines 86-87: creating the filter or reading its entries
\* raised; nothing catches it
GetEntriesFail ==
    /\ script = "badgerdao_task" /\ pc = "start"
    /\ fetched' = "failed"
    /\ pc' = "done"
    /\ outcome' = "raised"
    /\ error' = "ConnectionError"
    /\ UNCHANGED <<script, approvalVars, badgerVars, abiVars>>

\* collect_events, lines 86-87: the filter's entries
GetAllEntries ==
    /\ script = "badgerdao_task" /\ pc = "start"
    /\ \E es \in SeqsUpTo(EventLogSample, MaxEvents) : raw_events' = es
    /\ fetched' = "ok"
    /\ pc' = "parse"
    /\ UNCHANGED <<script, outcome, error, approvalVars, events, summary_table,
                   block_range_summary, abiVars>>

\* collect_events, line 88
ParseEvents ==
    /\ script = "badgerdao_task" /\ pc = "parse"
    /\ LET r == ParseAll(raw_events, ERC20_APPROVAL_ABI)
       IN  IF r.raised
           THEN /\ outcome' = "raised" /\ error' = r.error /\ pc' = "done"
                /\ events' = events
           ELSE /\ events' = r.value /\ pc' = "pivot"
                /\ UNCHANGED <<outcome, error>>
    /\ UNCHANGED <<script, fetched, approvalVars, raw_events, summary_table,
                   block_range_summary, abiVars>>

\* main, lines 110-113: an empty frame has no 'transaction' column
PivotTable ==
    /\ script = "badgerdao_task" /\ pc = "pivot"
    /\ IF Len(events) = 0
       THEN /\ outcome' = "raised" /\ error' = "KeyError" /\ pc' = "done"
            /\ summary_table' = summary_table
       ELSE /\ summary_table' = pivot_table(events) /\ pc' = "group"
            /\ UNCHANGED <<outcome, error>>
    /\ UNCHANGED <<script, fetched, approvalVars, raw_events, events,
                   block_range_summary, abiVars>>

\* main, lines 116-120
GroupByRange ==
    /\ script = "badgerdao_task" /\ pc = "group"
    /\ block_range_summary' = groupby_cut_sum(summary_table)
    /\ pc' = "done"
    /\ outcome' = "returned"
    /\ UNCHANGED <<script, error, fetched, approvalVars, raw_events, events,
                   summary_table, abiVars>>

InitBadger ==
    /\ script = "badgerdao_task"
    /\ pc = "start"
    /\ address = Null /\ padded_address = Null
    /\ logs = <<>> /\ pending = {} /\ names = <<>> /\ rpc = <<>> /\ printed = <<>>
    /\ raw_events = <<>> /\ events = <<>>
    /\ summary_table = Null /\ block_range_summary = Null

\* line 11, printed when the module is imported
Imported == <<[kind |-> "signature_hash", hash |-> APPROVAL_EVENT_SIGNATURE]>>

InitApprovals ==
    /\ script = "my_approvals"
    /\ pc = "args"
    /\ address = Null /\ padded_address = Null
    /\ logs = <<>> /\ pending = {} /\ names = <<>> /\ rpc = <<>> /\ printed = Imported
    /\ raw_events = <<>> /\ events = <<>>
    /\ summary_table = Null /\ block_range_summary = Null

InitCommon ==
    /\ outcome = "running" /\ error = "" /\ fetched = "none"
    /\ abiA = Null /\ abiB = Null /\ sigA = Null /\ sigB = Null

Init == InitCommon /\ (InitApprovals \/ InitBadger)

Next ==
    \/ ParseArgs \/ ParseArgsExit \/ ConnectFail \/ Connected
    \/ BuildFilter \/ GetLogsOk \/ GetLogsFail \/ ResolveName \/ DisplayLog
    \/ GetEntriesFail \/ GetAllEntries \/ ParseEvents \/ PivotTable \/ GroupByRange

Spec == Init /\ [][Next]_vars


(***************************************************************************)
(* The address topic on its own: get_approval_logs up to the filter.       *)
(***************************************************************************)
HexSample == {"0", "f", "F", "9", "a"}

AddressSample ==
    { <<"0", "x", c1>> \o Repeat(c2, AddressHexLen - 2) \o <<c3>> :
          c1 \in HexSample, c2 \in HexSample, c3 \in HexSample }
    \cup { <<"0", "x", "f", "f">>, <<"0", "x">>, <<"0", "x", "-", "1">> }

IsValidAddress(a) ==
    /\ Len(a) = 2 + AddressHexLen
    /\ a[1] = "0" /\ a[2] = "x"
    /\ \A i \in 3..Len(a) : a[i] \in HexChars

InitTopic ==
    /\ InitCommon
    /\ script = "my_approvals"
    /\ pc = "start"
    /\ address \in AddressSample
    /\ padded_address = Null
    /\ logs = <<>> /\ pending = {} /\ names = <<>> /\ rpc = <<>> /\ printed = Imported
    /\ raw_events = <<>> /\ events = <<>>
    /\ summary_table = Null /\ block_range_summary = Null

SpecTopic == InitTopic /\ [][BuildFilter]_vars

(***************************************************************************)
(* EventABI.signature on its own: two ABI objects and their properties.    *)
(***************************************************************************)
EventNames == {<<"E">>, <<"F">>, <<"E", "(">>}

ParamSample ==
    { ABIParam(TRUE, <<"x">>, <<"a">>),
      ABIParam(FALSE, <<"y">>, <<"a">>),
      ABIParam(FALSE, <<"x">>, <<"a", ",", "a">>),
      ABIParam(FALSE, <<"x">>, <<>>),
      ABIParam(FALSE, <<"x">>, <<"(", "a">>) }

InputLists == SeqsUpTo(ParamSample, MaxParams)

InitSig ==
    /\ pc = "start" /\ outcome = "running" /\ error = "" /\ fetched = "none"
    /\ script = "signature"
    /\ abiA \in {EventABI(ins, n, an) : ins \in InputLists, n \in EventNames, an \in BOOLEAN}
    /\ abiB \in {EventABI(ins, n, an) : ins \in InputLists, n \in EventNames, an \in BOOLEAN}
    /\ sigA = Null /\ sigB = Null
    /\ address = Null /\ padded_address = Null
    /\ logs = <<>> /\ pending = {} /\ names = <<>> /\ rpc = <<>> /\ printed = <<>>
    /\ raw_events = <<>> /\ events = <<>>
    /\ summary_table = Null /\ block_range_summary = Null

\* reading .signature and .signature_hex of both objects
ReadSignatures ==
    /\ script = "signature" /\ pc = "start"
    /\ sigA' = [signature |-> signature(abiA), signature_hex |-> signature_hex(abiA)]
    /\ sigB' = [signature |-> signature(abiB), signature_hex |-> signature_hex(abiB)]
    /\ pc' = "done"
    /\ outcome' = "returned"
    /\ UNCHANGED <<script, error, fetched, approvalVars, badgerVars, abiA, abiB>>

SpecSig == InitSig /\ [][ReadSignatures]_vars

(***************************************************************************)
(* Properties.                                                             *)
(***************************************************************************)
Fallback == <<"Unknown Token", DefaultDecimals>>
CallsFor(a) == SelectSeq(rpc, LAMBDA c : c.address = a)
ApprovalDone == script = "my_approvals" /\ pc = "done"
BadgerDone == script = "badgerdao_task" /\ pc = "done" /\ outcome = "returned"

\* C1 (as claimed): a log whose topic[0] is not the signature hash is never
\* displayed with an amount by display_log and never becomes a decoded
\* record of parse_event.
C1_MismatchNeverDecoded ==
    /\ \A i \in 1..Len(Displayed) :
           Displayed[i].log.topics[1] = APPROVAL_EVENT_SIGNATURE
    /\ events # <<>> =>
           \A i \in 1..Len(raw_events) :
               raw_events[i].topics[1] = signature_hex(ERC20_APPROVAL_ABI)

\* C9 (as claimed): a log whose topic count is not 3 or whose data is not
\* exactly one 32-byte word is never displayed with an amount by display_log
\* and never becomes a decoded record of parse_event.
C9_MalformedNeverDecoded ==
    /\ \A i \in 1..Len(Displayed) :
           /\ Len(Displayed[i].log.topics) = 1 + Len(Indexed(ERC20_APPROVAL_ABI))
           /\ Len(Displayed[i].log.data) = WordBytes * Len(NonIndexed(ERC20_APPROVAL_ABI))
    /\ events # <<>> =>
           \A i \in 1..Len(raw_events) :
               /\ Len(raw_events[i].topics) = 1 + Len(Indexed(ERC20_APPROVAL_ABI))
               /\ Len(raw_events[i].data) = WordBytes * Len(NonIndexed(ERC20_APPROVAL_ABI))

InRange(b) == START_BLOCK <= b /\ b < END_BLOCK

\* C2 (as claimed): every block of [START_BLOCK, END_BLOCK) is assigned to the
\* bucket [lo, lo + width) that contains it, every other block to none.
C2_HalfOpenBuckets ==
    BadgerDone =>
        \A b \in summary_table.index :
            LET code == block_range_summary.codes[b]
            IN  IF InRange(b)
                THEN /\ code # 0
                     /\ Edges[code] <= b
                     /\ b < Edges[code] + BucketWidth
                ELSE code = 0

RECURSIVE SumAll(_)
SumAll(f) ==
    IF DOMAIN f = {} THEN 0
    ELSE LET x == CHOOSE x \in DOMAIN f : TRUE
         IN  f[x] + SumAll([y \in DOMAIN f \ {x} |-> f[y]])

\* C8 (as claimed): every cell is the number of decoded events of that spender
\* whose block lies in that bucket [lo, lo + width), and the cells add up to
\* the number of decoded events whose block lies in [START_BLOCK, END_BLOCK).
C8_CellsCountEvents ==
    BadgerDone =>
        /\ \A c \in DOMAIN block_range_summary.sums :
               block_range_summary.sums[c] =
                   Cardinality({i \in 1..Len(events) :
                       /\ events[i][StrSpender] = c[2]
                       /\ Edges[c[1]] <= events[i][StrBlockNumber]
                       /\ events[i][StrBlockNumber] < Edges[c[1]] + BucketWidth})
        /\ SumAll(block_range_summary.sums) =
               Cardinality({i \in 1..Len(events) : InRange(events[i][StrBlockNumber])})

\* C3 (as claimed): when name() or decimals() failed for an address, the
\* resolver did not raise and returned ("unknown token", 18).
C3_FallbackLowerCase ==
    \A i \in 1..Len(rpc) :
        ~rpc[i].res.ok =>
            /\ error # "CallError"
            /\ rpc[i].address \in DOMAIN names
            /\ names[rpc[i].address] = <<"unknown token", 18>>

\* C3 (amended): when name() or decimals() failed for an address, the resolver
\* did not raise and returned ("Unknown Token", 18).
C3_FallbackPair ==
    \A i \in 1..Len(rpc) :
        ~rpc[i].res.ok =>
            /\ error # "CallError"
            /\ rpc[i].address \in DOMAIN names
            /\ names[rpc[i].address] = <<"Unknown Token", 18>>

C3_Witness ==
    \E a \in DOMAIN names :
        /\ Len(CallsFor(a)) = 1 /\ ~CallsFor(a)[1].res.ok
        /\ names[a] = Fallback

\* C10: the pair stored for an address is (name(), decimals()) when both calls
\* succeeded and the whole fallback otherwise; decimals() is not called after
\* a failed name().
C10_AllOrNothing ==
    \A a \in DOMAIN names :
        LET calls == CallsFor(a)
        IN  /\ Len(calls) \in {1, 2}
            /\ calls[1].method = "name"
            /\ IF calls[1].res.ok
               THEN /\ Len(calls) = 2
                    /\ calls[2].method = "decimals"
                    /\ IF calls[2].res.ok
                       THEN names[a] = <<calls[1].res.value, calls[2].res.value>>
                       ELSE names[a] = Fallback
               ELSE /\ Len(calls) = 1
                    /\ names[a] = Fallback

C10_Witness ==
    \E a \in DOMAIN names :
        /\ Len(CallsFor(a)) = 2
        /\ CallsFor(a)[1].res.ok /\ ~CallsFor(a)[2].res.ok
        /\ names[a] = Fallback

NameCalls(a) ==
    Len(SelectSeq(rpc, LAMBDA c : c.address = a /\ c.method = "name"))

\* C7: once the comprehension is over, each address of the batch has been
\* resolved exactly once and no other address has; before that, at most once;
\* and display_log never misses an address in the cache.
C7_ResolvedOncePerAddress ==
    script = "my_approvals" =>
        /\ \A a \in {l.address : l \in ApprovalLogSample} :
               /\ NameCalls(a) <= 1
               /\ NameCalls(a) = 1 <=> a \in DOMAIN names
        /\ DOMAIN names \subseteq {logs[i].address : i \in 1..Len(logs)}
        /\ pc \in {"display", "done"} /\ logs # <<>> =>
               DOMAIN names = {logs[i].address : i \in 1..Len(logs)}
        /\ error # "KeyError"
        /\ \A i \in 1..Len(Displayed) :
               /\ Displayed[i].log = logs[i]
               /\ <<Displayed[i].name, Displayed[i].amount.scale>> = names[logs[i].address]

C7_Witness ==
    /\ ApprovalDone
    /\ Len(logs) = 2 /\ logs[1].address = logs[2].address /\ logs[1] # logs[2]
    /\ Len(Displayed) = 2
    /\ NameCalls(logs[1].address) = 1

\* C4 (as claimed): a run whose log fetch failed ends as a raised failure, in
\* both scripts, and a run in which a metadata call failed still returns
\* normally with every fetched log displayed.
C4_FetchFailureRaises ==
    /\ fetched = "failed" => pc = "done" /\ outcome = "raised"
    /\ ApprovalDone /\ (\E i \in 1..Len(rpc) : ~rpc[i].res.ok) =>
           /\ outcome = "returned"
           /\ Len(Displayed) = Len(logs)
           /\ \A i \in 1..Len(logs) : Displayed[i].log = logs[i]

\* C5: for a valid address the filter topic is '0x' and 64 hex digits, its 32
\* bytes are 12 zero bytes followed by the 20 bytes of the address, and the
\* low-order 20 bytes decode to the address; the digits are kept as written.
C5_AddressTopicRoundTrip ==
    pc = "fetch" /\ IsValidAddress(address) =>
        LET digits == DropTwo(padded_address)
            word == HexToBytes(digits)
        IN  /\ Len(padded_address) = 2 + ZfillWidth
            /\ padded_address[1] = "0" /\ padded_address[2] = "x"
            /\ \A i \in 1..Len(digits) : digits[i] \in HexChars
            /\ Len(word) = WordBytes
            /\ \A i \in 1..(WordBytes - AddressBytes) : word[i] = 0
            /\ DecodeAddress(word) = HexToBytes(DropTwo(address))
            /\ SubSeq(digits, ZfillWidth - AddressHexLen + 1, ZfillWidth) = DropTwo(address)

C5_Witness ==
    /\ pc = "fetch"
    /\ address = <<"0", "x">> \o Repeat("f", AddressHexLen)
    /\ HexToBytes(DropTwo(padded_address)) = AddressWord(AddrOf(255))

TypesOf(abi) == [i \in 1..Len(abi.inputs) |-> abi.inputs[i].type]
SameNameAndTypes(a, b) == a.name = b.name /\ TypesOf(a) = TypesOf(b)
Has(str, c) == \E i \in 1..Len(str) : str[i] = c
PlainTags(abi) ==
    /\ ~Has(abi.name, "(")
    /\ \A i \in 1..Len(abi.inputs) :
           abi.inputs[i].type # <<>> /\ ~Has(abi.inputs[i].type, ",")

\* C6 (as claimed): same name and type sequence give the same signature and
\* signature_hex, and a different name or type sequence gives a different
\* signature, for all EventABI values.
C6_SignatureInjective ==
    pc = "done" /\ script = "signature" =>
        IF SameNameAndTypes(abiA, abiB)
        THEN sigA.signature = sigB.signature /\ sigA.signature_hex = sigB.signature_hex
        ELSE sigA.signature # sigB.signature

\* C6 (amended): same name and type sequence give the same signature and
\* signature_hex; a different name or type sequence gives a different
\* signature when no name holds '(' and every type tag is non-empty and
\* holds no ','.
C6_SignatureOfNameAndTypes ==
    pc = "done" /\ script = "signature" =>
        /\ SameNameAndTypes(abiA, abiB) =>
               sigA.signature = sigB.signature /\ sigA.signature_hex = sigB.signature_hex
        /\ ~SameNameAndTypes(abiA, abiB) /\ PlainTags(abiA) /\ PlainTags(abiB) =>
               sigA.signature # sigB.signature

C6_Witness ==
    /\ pc = "done" /\ script = "signature"
    /\ SameNameAndTypes(abiA, abiB)
    /\ Len(abiA.inputs) = 2
    /\ abiA.inputs[1].name # abiB.inputs[1].name
    /\ abiA.inputs[1].indexed # abiB.inputs[1].indexed
    /\ abiA.anonymous # abiB.anonymous
    /\ sigA = sigB

=============================================================================
